---- MODULE Spec2Model ----
(***************************************************************************)
(* Staff scheduler (python-service): the /solve endpoint, solve_schedule,  *)
(* build_result, verify_max_hours and merge_gaps.                          *)
(*                                                                         *)
(* The CP-SAT engine is modelled by what the code asks of it: a status and *)
(* a value for every Boolean variable such that all constraints added to   *)
(* the model hold; with status OPTIMAL the values maximise the objective.  *)
(* Requirement ids are natural numbers ordered as the id strings are;      *)
(* an Optional[int] is the empty set (None) or a singleton.                *)
(***************************************************************************)
EXTENDS Integers, Sequences, FiniteSets

\* ---------------------------------------------------------------- bounds
MaxHour == 3
MaxStaffing == 2

\* ------------------------------------------------------ program constants
HoursPerDay == 24
DaysPerWeek == 7
MaxWeekHours == 168
TotalBound == 10000
HourReward == 10
GapPenalty == 1000
UndertimePenalty == 5

VARIABLES request, pc, x, y, overlapping, status, solution, results, response,
          fragments, merges

vars == <<request, pc, x, y, overlapping, status, solution, results, response,
          fragments, merges>>

\* ------------------------------------------------------------- utilities
Range(seq) == {seq[i] : i \in 1..Len(seq)}

RECURSIVE SumSeq(_)
SumSeq(seq) == IF seq = <<>> THEN 0 ELSE Head(seq) + SumSeq(Tail(seq))

RECURSIVE Concat(_)
Concat(seqs) == IF seqs = <<>> THEN <<>> ELSE Head(seqs) \o Concat(Tail(seqs))

Min(a, b) == IF a <= b THEN a ELSE b
Max(a, b) == IF a >= b THEN a ELSE b

\* sorted(list of int): ascending
RECURSIVE SortedHours(_)
SortedHours(S) ==
    IF S = {} THEN <<>>
    ELSE LET m == CHOOSE h \in S : \A k \in S : h <= k
         IN  <<m>> \o SortedHours(S \ {m})

\* ------------------------------------------------------------ schemas.py
Staff(id, quals, hmax, hmin) ==
    [id |-> id, qualifications |-> quals,
     maxHoursPerWeek |-> hmax, minHoursPerWeek |-> hmin]

Availability(sid, day, start, end) ==
    [staffId |-> sid, dayOfWeek |-> day, startHour |-> start, endHour |-> end]

ShiftRequirement(id, day, start, end, quals, minS, maxS) ==
    [id |-> id, locationId |-> "loc1", dayOfWeek |-> day,
     startHour |-> start, endHour |-> end,
     requiredQualifications |-> quals, minStaff |-> minS, maxStaff |-> maxS]

ScheduleConstraints(split, maxH, minH) ==
    [allowSplitShifts |-> split, maxHoursPerStaff |-> maxH, minHoursPerStaff |-> minH]

SolveRequest(staff, availability, requirements, constraints) ==
    [staff |-> staff, availability |-> availability,
     requirements |-> requirements, constraints |-> constraints]

ScheduledShift(sid, rid, date, start, end, loc) ==
    [staffId |-> sid, requirementId |-> rid, date |-> date,
     startHour |-> start, endHour |-> end, locationId |-> loc, isLocked |-> FALSE]

UncoveredGap(rid, day, start, end, loc) ==
    [requirementId |-> rid, dayOfWeek |-> day,
     startHour |-> start, endHour |-> end, locationId |-> loc]

ScheduleWarning(type, sid) == [type |-> type, staffId |-> sid]

\* ------------------------------------------- solve_schedule: the helpers
\* availability_by_staff_day.get((staff.id, day), [])
AvailabilityByStaffDay(req, sid, day) ==
    SelectSeq(req.availability, LAMBDA a : a.staffId = sid /\ a.dayOfWeek = day)

\* mutant: the windows are combined, every hour being in some window
HasUnionAvailability(avail_list, start, end) ==
    \A h \in start..(end - 1) :
        \E i \in 1..Len(avail_list) :
            avail_list[i].startHour <= h /\ h < avail_list[i].endHour

\* mutant: a window that overlaps the shift is taken for one that spans it
HasOverlappingAvailability(avail_list, start, end) ==
    \E i \in 1..Len(avail_list) :
        avail_list[i].startHour < end /\ avail_list[i].endHour > start

has_full_availability(avail_list, start, end) ==
    \E i \in 1..Len(avail_list) :
        avail_list[i].startHour <= start /\ avail_list[i].endHour >= end

\* mutant: the window's end hour counts as available
IsAvailableThroughEnd(avail_list, hour) ==
    \E i \in 1..Len(avail_list) :
        avail_list[i].startHour <= hour /\ hour <= avail_list[i].endHour

is_available_at_hour(avail_list, hour) ==
    \E i \in 1..Len(avail_list) :
        avail_list[i].startHour <= hour /\ hour < avail_list[i].endHour

\* mutant: any() where the code has all()
IsQualifiedAny(staff, r) ==
    IF r.requiredQualifications = {} THEN TRUE
    ELSE \E q \in r.requiredQualifications : q \in staff.qualifications

is_qualified(staff, r) ==
    IF r.requiredQualifications = {} THEN TRUE
    ELSE \A q \in r.requiredQualifications : q \in staff.qualifications

\* next(r for r in request.requirements if r.id == req_id)
ReqById(req, rid) ==
    LET i == CHOOSE j \in 1..Len(req.requirements) :
                 /\ req.requirements[j].id = rid
                 /\ \A k \in 1..(j - 1) : req.requirements[k].id # rid
    IN  req.requirements[i]

StaffIds(req) == {s.id : s \in Range(req.staff)}
ReqHours(r) == r.startHour .. (r.endHour - 1)
Duration(r) == r.endHour - r.startHour

\* the candidate filter shared by both regimes
Candidate(req, staff, r) ==
    /\ is_qualified(staff, r)
    /\ AvailabilityByStaffDay(req, staff.id, r.dayOfWeek) # <<>>

\* x[(staff_id, req_id, hour)]: the keys created in the split regime
XKeys(req) ==
    IF ~req.constraints.allowSplitShifts THEN {}
    ELSE UNION {UNION {{<<s.id, r.id, h>> : h \in
                          {k \in ReqHours(r) : is_available_at_hour(
                              AvailabilityByStaffDay(req, s.id, r.dayOfWeek), k)}} :
                       s \in {t \in Range(req.staff) : Candidate(req, t, r)}} :
                r \in Range(req.requirements)}

\* y[(staff_id, req_id)]: the keys created in the whole-shift regime
YKeys(req) ==
    IF req.constraints.allowSplitShifts THEN {}
    ELSE UNION {{<<s.id, r.id>> :
                    s \in {t \in Range(req.staff) :
                              /\ Candidate(req, t, r)
                              /\ has_full_availability(
                                     AvailabilityByStaffDay(req, t.id, r.dayOfWeek),
                                     r.startHour, r.endHour)}} :
                r \in Range(req.requirements)}

\* ------------------------------------------- solve_schedule: the CP model
Keys(req, xk, yk) == IF req.constraints.allowSplitShifts THEN xk ELSE yk

\* hour_assignments of (req, hour): the variables summed into cov[r,h]
HourAssignments(req, xk, yk, r, h) ==
    IF req.constraints.allowSplitShifts
    THEN {k \in xk : k[2] = r.id /\ k[3] = h}
    ELSE {k \in yk : k[2] = r.id}

\* the value the constraint coverage == sum(hour_assignments) gives cov[r,h]
Coverage(req, xk, yk, a, r, h) ==
    Cardinality(a \cap HourAssignments(req, xk, yk, r, h))

\* mutant: the requirement's first hour is left out of the range test
OverlappingVarsAfterStart(req, xk, yk, sid, day, hour) ==
    LET rs == {r \in Range(req.requirements) :
                  r.dayOfWeek = day /\ r.startHour < hour /\ hour < r.endHour}
    IN  IF req.constraints.allowSplitShifts
        THEN {k \in xk : k[1] = sid /\ k[3] = hour /\ \E r \in rs : r.id = k[2]}
        ELSE {k \in yk : k[1] = sid /\ \E r \in rs : r.id = k[2]}

\* overlapping_vars of (staff, day, hour)
OverlappingVars(req, xk, yk, sid, day, hour) ==
    LET rs == {r \in Range(req.requirements) :
                  r.dayOfWeek = day /\ r.startHour <= hour /\ hour < r.endHour}
    IN  IF req.constraints.allowSplitShifts
        THEN {k \in xk : k[1] = sid /\ k[3] = hour /\ \E r \in rs : r.id = k[2]}
        ELSE {k \in yk : k[1] = sid /\ \E r \in rs : r.id = k[2]}

\* the groups for which model.Add(sum(overlapping_vars) <= 1) is called
NoDoubleBooking(req, xk, yk) ==
    {g \in {OverlappingVars(req, xk, yk, sid, day, hour) :
                sid \in StaffIds(req), day \in 0..(DaysPerWeek - 1),
                hour \in 0..(HoursPerDay - 1)} :
        Cardinality(g) > 1}

\* the value the constraint total_hours == sum(hour_terms) gives hours[s]
StaffHours(req, a, sid) ==
    IF req.constraints.allowSplitShifts
    THEN Cardinality({k \in a : k[1] = sid})
    ELSE SumSeq([i \in 1..Len(req.requirements) |->
                    IF <<sid, req.requirements[i].id>> \in a
                    THEN Duration(ReqById(req, req.requirements[i].id)) ELSE 0])

\* mutant: the request-wide ceiling replaces the personal one instead of capping it
MaxAllowedOverride(req, staff) ==
    LET m == req.constraints.maxHoursPerStaff
    IN  IF m # {} /\ (\E v \in m : v > 0)
        THEN CHOOSE v \in m : TRUE
        ELSE staff.maxHoursPerWeek

\* mutant: the request-wide ceiling is ignored
MaxAllowedPersonal(req, staff) == staff.maxHoursPerWeek

MaxAllowed(req, staff) ==
    LET m == req.constraints.maxHoursPerStaff
    IN  IF m # {} /\ (\E v \in m : v > 0)
        THEN Min(staff.maxHoursPerWeek, CHOOSE v \in m : TRUE)
        ELSE staff.maxHoursPerWeek

\* max(staff.minHoursPerWeek, constraints.minHoursPerStaff or 0)
MinDesired(req, staff) ==
    LET m == req.constraints.minHoursPerStaff
    IN  Max(staff.minHoursPerWeek, IF m = {} THEN 0 ELSE CHOOSE v \in m : TRUE)

\* sum over (r, h) of the least value gap[r,h] may take: coverage + gap >= minStaff
TotalGap(req, xk, yk, a) ==
    SumSeq([i \in 1..Len(req.requirements) |->
        LET r == req.requirements[i]
        IN  SumSeq([j \in 1..Duration(r) |->
                Max(0, r.minStaff - Coverage(req, xk, yk, a, r, r.startHour + j - 1))])])

TotalAssignedHours(req, a) ==
    SumSeq([i \in 1..Len(req.staff) |-> StaffHours(req, a, req.staff[i].id)])

\* sum over staff of the least value under[s] may take, where the variable exists
TotalUndertime(req, a) ==
    SumSeq([i \in 1..Len(req.staff) |->
        LET s == req.staff[i]
        IN  IF MinDesired(req, s) > 0
            THEN Max(0, MinDesired(req, s) - StaffHours(req, a, s.id)) ELSE 0])

\* the values gap[r,h] may take next to the assignment a: the domain
\* [0, max(minStaff, 1)] and the constraint coverage + gap >= minStaff
GapValues(req, xk, yk, a, r, h) ==
    {g \in 0..Max(r.minStaff, 1) : Coverage(req, xk, yk, a, r, h) + g >= r.minStaff}

\* the values of gap[r,h] the maximised objective leaves: gap enters it only
\* through - total_gap * 1000
OptimalGapValues(req, xk, yk, a, r, h) ==
    {g \in GapValues(req, xk, yk, a, r, h) :
        \A g2 \in GapValues(req, xk, yk, a, r, h) :
            (0 - g) * GapPenalty >= (0 - g2) * GapPenalty}

\* mutant: the max-staff cap is never added to the model
FeasibleNoCap(req, xk, yk, ov, a) ==
    /\ \A g \in ov : Cardinality(g \cap a) <= 1
    /\ \A s \in Range(req.staff) :
           /\ StaffHours(req, a, s.id) <= MaxWeekHours
           /\ StaffHours(req, a, s.id) <= MaxAllowed(req, s)
    /\ TotalGap(req, xk, yk, a) <= TotalBound
    /\ TotalAssignedHours(req, a) <= TotalBound
    /\ TotalUndertime(req, a) <= TotalBound

\* every constraint added to the model holds for the assignment a
Feasible(req, xk, yk, ov, a) ==
    /\ \A r \in Range(req.requirements) : \A h \in ReqHours(r) :
           r.maxStaff > 0 => Coverage(req, xk, yk, a, r, h) <= r.maxStaff
    /\ \A g \in ov : Cardinality(g \cap a) <= 1
    /\ \A s \in Range(req.staff) :
           /\ StaffHours(req, a, s.id) <= MaxWeekHours
           /\ StaffHours(req, a, s.id) <= MaxAllowed(req, s)
    /\ TotalGap(req, xk, yk, a) <= TotalBound
    /\ TotalAssignedHours(req, a) <= TotalBound
    /\ TotalUndertime(req, a) <= TotalBound

\* mutant: the gap penalty is left out of the objective
ObjectiveNoGap(req, xk, yk, a) ==
    TotalAssignedHours(req, a) * HourReward
    - TotalUndertime(req, a) * UndertimePenalty

\* the objective at a, its slack variables at their least values
Objective(req, xk, yk, a) ==
    TotalAssignedHours(req, a) * HourReward
    - TotalGap(req, xk, yk, a) * GapPenalty
    - TotalUndertime(req, a) * UndertimePenalty

\* the values the variables of one staff member may take together: no group
\* of overlapping_vars of that staff member has two variables at 1
StaffAssignments(req, xk, yk, ov, sid) ==
    {q \in SUBSET {k \in Keys(req, xk, yk) : k[1] = sid} :
        \A g \in ov : Cardinality(g \cap q) <= 1}

\* the assignments put together from those of the first i staff members; every
\* variable belongs to one staff member and so does every overlap group, so
\* these are the subsets of the variables that satisfy the overlap constraints
RECURSIVE NonOverlapping(_, _, _, _, _)
NonOverlapping(req, xk, yk, ov, i) ==
    IF i = 0 THEN {{}}
    ELSE {p \cup q : p \in NonOverlapping(req, xk, yk, ov, i - 1),
                     q \in StaffAssignments(req, xk, yk, ov, req.staff[i].id)}

FeasibleSet(req, xk, yk, ov) ==
    {a \in NonOverlapping(req, xk, yk, ov, Len(req.staff)) :
        Feasible(req, xk, yk, ov, a)}

\* the assignments of feas whose objective is the maximum over feas
OptimalAmong(req, xk, yk, feas) ==
    LET objs == {Objective(req, xk, yk, a) : a \in feas}
        best == CHOOSE v \in objs : \A w \in objs : w <= v
    IN  {a \in feas : Objective(req, xk, yk, a) = best}

\* the feasible assignments whose objective is the maximum
OptimalSet(req, xk, yk, ov) ==
    OptimalAmong(req, xk, yk, FeasibleSet(req, xk, yk, ov))

\* ----------------------------------------------------------- build_result
\* mutant: the segment open at the end of the loop is never appended
RECURSIVE SegmentLoopNoFlush(_, _, _, _)
SegmentLoopNoFlush(hours, seg_start, seg_end, segments) ==
    IF hours = <<>> THEN segments
    ELSE IF Head(hours) = seg_end
         THEN SegmentLoopNoFlush(Tail(hours), seg_start, Head(hours) + 1, segments)
         ELSE SegmentLoopNoFlush(Tail(hours), Head(hours), Head(hours) + 1,
                                 Append(segments, <<seg_start, seg_end>>))

\* the loop over hours[1:] that folds sorted hours into contiguous segments
RECURSIVE SegmentLoop(_, _, _, _)
SegmentLoop(hours, seg_start, seg_end, segments) ==
    IF hours = <<>> THEN Append(segments, <<seg_start, seg_end>>)
    ELSE IF Head(hours) = seg_end
         THEN SegmentLoop(Tail(hours), seg_start, Head(hours) + 1, segments)
         ELSE SegmentLoop(Tail(hours), Head(hours), Head(hours) + 1,
                          Append(segments, <<seg_start, seg_end>>))

\* mutant: the sorted hours become one segment from the first to the last hour
SegmentsOneRun(hours) ==
    IF hours = <<>> THEN <<>>
    ELSE <<<<Head(hours), hours[Len(hours)] + 1>>>>

Segments(hours) ==
    IF hours = <<>> THEN <<>>
    ELSE SegmentLoop(Tail(hours), Head(hours), Head(hours) + 1, <<>>)

\* staff_req_hours[(staff_id, req_id)] after hours.sort()
StaffReqHours(a, sid, rid) ==
    SortedHours({k[3] : k \in {c \in a : c[1] = sid /\ c[2] = rid}})

\* the shifts emitted for one (staff, requirement) pair
PairShifts(req, a, sid, rid) ==
    LET r == ReqById(req, rid)
    IN  IF req.constraints.allowSplitShifts
        THEN LET segs == Segments(StaffReqHours(a, sid, rid))
             IN  [i \in 1..Len(segs) |->
                     ScheduledShift(sid, rid, r.dayOfWeek, segs[i][1], segs[i][2],
                                    r.locationId)]
        ELSE IF <<sid, rid>> \in a
             THEN <<ScheduledShift(sid, rid, r.dayOfWeek, r.startHour, r.endHour,
                                   r.locationId)>>
             ELSE <<>>

\* shifts, in the insertion order of the dict x (or y): requirement, then staff
Shifts(req, a) ==
    Concat([i \in 1..Len(req.requirements) |->
        Concat([j \in 1..Len(req.staff) |->
            PairShifts(req, a, req.staff[j].id, req.requirements[i].id)])])

HoursPerStaff(req, a) ==
    [sid \in StaffIds(req) |-> StaffHours(req, a, sid)]

RequiredHours(req) ==
    SumSeq([i \in 1..Len(req.requirements) |->
        Duration(req.requirements[i]) * req.requirements[i].minStaff])

CoveredHours(req, xk, yk, a) ==
    SumSeq([i \in 1..Len(req.requirements) |->
        LET r == req.requirements[i]
        IN  SumSeq([j \in 1..Duration(r) |->
                Min(Coverage(req, xk, yk, a, r, r.startHour + j - 1), r.minStaff)])])

\* the hour sweep of one requirement; gap_start is {} (None) or {hour}
RECURSIVE GapSweep(_, _, _, _, _, _, _)
GapSweep(req, xk, yk, a, r, hour, gap_start) ==
    IF hour >= r.endHour
    THEN IF gap_start # {}
         THEN <<UncoveredGap(r.id, r.dayOfWeek, CHOOSE g \in gap_start : TRUE,
                             r.endHour, r.locationId)>>
         ELSE <<>>
    ELSE IF Coverage(req, xk, yk, a, r, hour) < r.minStaff
         THEN GapSweep(req, xk, yk, a, r, hour + 1,
                       IF gap_start = {} THEN {hour} ELSE gap_start)
         ELSE IF gap_start # {}
              THEN <<UncoveredGap(r.id, r.dayOfWeek, CHOOSE g \in gap_start : TRUE,
                                  hour, r.locationId)>>
                   \o GapSweep(req, xk, yk, a, r, hour + 1, {})
              ELSE GapSweep(req, xk, yk, a, r, hour + 1, {})

\* uncovered_gaps as passed to merge_gaps
SweepGaps(req, xk, yk, a) ==
    Concat([i \in 1..Len(req.requirements) |->
        GapSweep(req, xk, yk, a, req.requirements[i],
                 req.requirements[i].startHour, {})])

FullyCovered(req, xk, yk, a, r) ==
    \A h \in ReqHours(r) : ~(Coverage(req, xk, yk, a, r, h) < r.minStaff)

FilledShifts(req, xk, yk, a) ==
    SumSeq([i \in 1..Len(req.requirements) |->
        IF FullyCovered(req, xk, yk, a, req.requirements[i]) THEN 1 ELSE 0])

StaffWarnings(req, a, staff) ==
    LET hours == StaffHours(req, a, staff.id)
    IN  (IF hours > staff.maxHoursPerWeek
         THEN <<ScheduleWarning("overtime", staff.id)>> ELSE <<>>)
        \o
        (IF hours < staff.minHoursPerWeek /\ staff.minHoursPerWeek > 0
         THEN <<ScheduleWarning("undertime", staff.id)>> ELSE <<>>)

Warnings(req, a) ==
    Concat([i \in 1..Len(req.staff) |-> StaffWarnings(req, a, req.staff[i])])

\* covered_hours / required_hours * 100 as an exact fraction; 100.0 is 100/1
CoveragePct(covered_hours, required_hours) ==
    IF required_hours > 0
    THEN [num |-> covered_hours * 100, den |-> required_hours]
    ELSE [num |-> 100, den |-> 1]

\* ------------------------------------------------------------- merge_gaps
\* the sort key (requirementId, dayOfWeek, startHour), compared as tuples
GapKeyLess(g, h) ==
    \/ g.requirementId < h.requirementId
    \/ /\ g.requirementId = h.requirementId
       /\ \/ g.dayOfWeek < h.dayOfWeek
          \/ g.dayOfWeek = h.dayOfWeek /\ g.startHour < h.startHour

\* stable insertion of g into a sorted list
RECURSIVE InsertGap(_, _)
InsertGap(sorted, g) ==
    IF sorted = <<>> THEN <<g>>
    ELSE IF GapKeyLess(g, Head(sorted)) THEN <<g>> \o sorted
         ELSE <<Head(sorted)>> \o InsertGap(Tail(sorted), g)

\* sorted(gaps, key=...): stable
RECURSIVE SortedGaps(_)
SortedGaps(gaps) ==
    IF gaps = <<>> THEN <<>>
    ELSE InsertGap(SortedGaps(SubSeq(gaps, 1, Len(gaps) - 1)), gaps[Len(gaps)])

\* mutant: a merged fragment is appended at once and the next gap starts afresh
RECURSIVE MergeLoopPairwise(_, _, _)
MergeLoopPairwise(rest, current, merged) ==
    IF rest = <<>> THEN Append(merged, current)
    ELSE LET gap == Head(rest)
         IN  IF /\ gap.requirementId = current.requirementId
                /\ gap.dayOfWeek = current.dayOfWeek
                /\ gap.startHour = current.endHour
             THEN LET joined == UncoveredGap(current.requirementId, current.dayOfWeek,
                                             current.startHour, gap.endHour,
                                             current.locationId)
                  IN  IF Tail(rest) = <<>> THEN Append(merged, joined)
                      ELSE MergeLoopPairwise(Tail(Tail(rest)), Head(Tail(rest)),
                                             Append(merged, joined))
             ELSE MergeLoopPairwise(Tail(rest), gap, Append(merged, current))

RECURSIVE MergeLoop(_, _, _)
MergeLoop(rest, current, merged) ==
    IF rest = <<>> THEN Append(merged, current)
    ELSE LET gap == Head(rest)
         IN  IF /\ gap.requirementId = current.requirementId
                /\ gap.dayOfWeek = current.dayOfWeek
                /\ gap.startHour = current.endHour
             THEN MergeLoop(Tail(rest),
                            UncoveredGap(current.requirementId, current.dayOfWeek,
                                         current.startHour, gap.endHour,
                                         current.locationId),
                            merged)
             ELSE MergeLoop(Tail(rest), gap, Append(merged, current))

\* mutant: the gaps are merged in the order given, without the sort
MergeGapsUnsorted(gaps) ==
    IF gaps = <<>> THEN <<>>
    ELSE MergeLoop(Tail(gaps), Head(gaps), <<>>)

merge_gaps(gaps) ==
    IF gaps = <<>> THEN <<>>
    ELSE LET sorted_gaps == SortedGaps(gaps)
         IN  MergeLoop(Tail(sorted_gaps), Head(sorted_gaps), <<>>)

build_result(req, xk, yk, a) ==
    LET hours_per_staff == HoursPerStaff(req, a)
        required_hours  == RequiredHours(req)
        covered_hours   == CoveredHours(req, xk, yk, a)
    IN  [schedule |-> [shifts |-> Shifts(req, a), isPublished |-> FALSE],
         warnings |-> Warnings(req, a),
         stats    |-> [totalShifts        |-> Len(req.requirements),
                       filledShifts       |-> FilledShifts(req, xk, yk, a),
                       totalHours         |-> SumSeq([i \in 1..Len(req.staff) |->
                                                 hours_per_staff[req.staff[i].id]]),
                       hoursPerStaff      |-> hours_per_staff,
                       coveragePercentage |-> CoveragePct(covered_hours, required_hours),
                       requiredHours      |-> required_hours,
                       coveredHours       |-> covered_hours,
                       uncoveredGaps      |-> merge_gaps(SweepGaps(req, xk, yk, a))]]

\* verify_max_hours raises RuntimeError
MaxHoursViolated(result, req) ==
    \E s \in Range(req.staff) :
        result.stats.hoursPerStaff[s.id] > s.maxHoursPerWeek

\* ------------------------------------------------------------ the requests
Intervals == {w \in (0..MaxHour) \X (0..MaxHour) : w[1] < w[2]}

IntervalLess(v, w) == v[1] < w[1] \/ (v[1] = w[1] /\ v[2] < w[2])

FullDay(sid, day) == Availability(sid, day, 0, MaxHour)

WindowLists(sid) ==
    {<<>>}
    \cup {<<Availability(sid, 0, w[1], w[2])>> : w \in Intervals}
    \cup {<<Availability(sid, 0, p[1][1], p[1][2]),
             Availability(sid, 0, p[2][1], p[2][2])>> :
             p \in {q \in Intervals \X Intervals : IntervalLess(q[1], q[2])}}

StaffingPairs ==
    {m \in (0..MaxStaffing) \X (0..MaxStaffing) : m[2] = 0 \/ m[1] <= m[2]}

\* one staff member, one requirement, every list of at most two windows
WindowRequests ==
    {SolveRequest(<<Staff("s1", {}, hmax, 0)>>, wl,
                  <<ShiftRequirement(1, 0, i[1], i[2], {}, 1, 1)>>,
                  ScheduleConstraints(split, {}, {})) :
        hmax \in {1, MaxHour}, wl \in WindowLists("s1"), i \in Intervals,
        split \in BOOLEAN}

\* one staff member, two requirements on the same or on different days
BookingRequests ==
    {SolveRequest(<<Staff("s1", {}, hmax, 0)>>,
                  <<FullDay("s1", 0), FullDay("s1", 1)>>,
                  <<ShiftRequirement(ids[1], 0, i[1], i[2], {}, 1, 1),
                    ShiftRequirement(ids[2], d, j[1], j[2], {}, 1, 0)>>,
                  ScheduleConstraints(split, {}, {})) :
        hmax \in {2, 2 * MaxHour}, ids \in {<<1, 2>>, <<2, 1>>}, d \in {0, 1},
        i \in Intervals, j \in Intervals, split \in BOOLEAN}

\* two staff members, one requirement, every staffing range and qualification set
StaffingRequests ==
    {SolveRequest(<<Staff("s1", {"nurse"}, MaxHour, 0), Staff("s2", q, MaxHour, 0)>>,
                  <<FullDay("s1", 0), FullDay("s2", 0)>>,
                  <<ShiftRequirement(1, 0, i[1], i[2], rq, m[1], m[2])>>,
                  ScheduleConstraints(split, {}, {})) :
        q \in {{}, {"nurse"}}, i \in Intervals,
        rq \in {{}, {"nurse"}, {"nurse", "cpr"}}, m \in StaffingPairs,
        split \in BOOLEAN}

\* two staff members, every personal ceiling and floor, request-wide overrides
CeilingRequests ==
    {SolveRequest(<<Staff("s1", {}, hmax, hmin), Staff("s2", {}, 1, 0)>>,
                  <<FullDay("s1", 0), FullDay("s2", 0)>>,
                  <<ShiftRequirement(1, 0, 0, MaxHour, {}, 1, 0)>>,
                  ScheduleConstraints(split, gmax, gmin)) :
        hmax \in (-1)..MaxHour, hmin \in {0, 2},
        gmax \in {{}, {0}, {1}, {2}}, gmin \in {{}, {1}}, split \in BOOLEAN}

\* two staff members competing for two requirements on one day
TeamRequests ==
    {SolveRequest(<<Staff("s1", {"nurse"}, hmax, 0), Staff("s2", {}, MaxHour, 0)>>,
                  <<FullDay("s1", 0), Availability("s2", 0, w[1], w[2])>>,
                  <<ShiftRequirement(1, 0, i[1], i[2], rq, 1, 1),
                    ShiftRequirement(2, 0, 0, 1, {}, 1, 1)>>,
                  ScheduleConstraints(split, {}, {})) :
        hmax \in {1, MaxHour}, w \in Intervals, i \in Intervals,
        rq \in {{}, {"nurse"}}, split \in BOOLEAN}

\* S1: split mode, ceiling 5, windows [8,10) and [14,16)
ScenarioS1 ==
    SolveRequest(<<Staff("s1", {}, 5, 0)>>,
                 <<Availability("s1", 0, 8, 10), Availability("s1", 0, 14, 16)>>,
                 <<ShiftRequirement(1, 0, 8, 12, {}, 1, 1),
                   ShiftRequirement(2, 0, 12, 16, {}, 1, 1)>>,
                 ScheduleConstraints(TRUE, {}, {}))

\* S3: whole-shift mode, windows [8,10) and [11,13), requirement [8,13)
ScenarioS3 ==
    SolveRequest(<<Staff("s1", {}, 20, 0)>>,
                 <<Availability("s1", 0, 8, 10), Availability("s1", 0, 11, 13)>>,
                 <<ShiftRequirement(1, 0, 8, 13, {}, 1, 1)>>,
                 ScheduleConstraints(FALSE, {}, {}))

\* S4: three qualified, fully available staff; minStaff 1, maxStaff 2
ScenarioS4(split) ==
    SolveRequest(<<Staff("s1", {"nurse"}, 40, 0), Staff("s2", {"nurse"}, 40, 0),
                   Staff("s3", {"nurse"}, 40, 0)>>,
                 <<Availability("s1", 0, 0, 24), Availability("s2", 0, 0, 24),
                   Availability("s3", 0, 0, 24)>>,
                 <<ShiftRequirement(1, 0, 9, 12, {"nurse"}, 1, 2)>>,
                 ScheduleConstraints(split, {}, {}))

\* S5: one staff member, requirements [9,13) and [11,15) on one day
ScenarioS5(split) ==
    SolveRequest(<<Staff("s1", {}, 40, 0)>>,
                 <<Availability("s1", 0, 0, 24)>>,
                 <<ShiftRequirement(1, 0, 9, 13, {}, 1, 1),
                   ShiftRequirement(2, 0, 11, 15, {}, 1, 1)>>,
                 ScheduleConstraints(split, {}, {}))

\* S6: minStaff 1 and no qualified staff
ScenarioS6(split) ==
    SolveRequest(<<Staff("s1", {}, 40, 0)>>,
                 <<Availability("s1", 0, 0, 24)>>,
                 <<ShiftRequirement(1, 0, 9, 11, {"nurse"}, 1, 1)>>,
                 ScheduleConstraints(split, {}, {}))

\* S2: A holds "nurse" and is partly available, B holds nothing
ScenarioS2(split) ==
    SolveRequest(<<Staff("s1", {"nurse"}, 40, 0), Staff("s2", {}, 40, 0)>>,
                 <<Availability("s1", 0, 8, 10), Availability("s2", 0, 0, 24)>>,
                 <<ShiftRequirement(1, 0, 8, 12, {"nurse"}, 1, 1)>>,
                 ScheduleConstraints(split, {}, {}))

Scenarios ==
    {ScenarioS1, ScenarioS3}
    \cup {ScenarioS2(b) : b \in BOOLEAN}
    \cup {ScenarioS4(b) : b \in BOOLEAN}
    \cup {ScenarioS5(b) : b \in BOOLEAN}
    \cup {ScenarioS6(b) : b \in BOOLEAN}

\* a chain of n staff members on weekday 0 in the whole-shift regime.
\* Requirement j (j = 0..n-1, id j+1) is the two hours [n-1-j, n+1-j) with
\* minStaff = maxStaff = 1; requirement n+k (k = 1..n) needs nobody and fills
\* the rest of the day after requirement k (the whole day for k = n). Staff
\* member k is qualified for requirements k-1, k and n+k only, is available all
\* day, and has as floor the hours of requirements k and n+k together.
ChainStaffIds == <<"s1", "s2", "s3", "s4", "s5", "s6", "s7">>

ChainQualifications ==
    <<"q1", "q2", "q3", "q4", "q5", "q6", "q7",
      "q8", "q9", "q10", "q11", "q12", "q13", "q14">>

ChainCovered(n, j) ==
    ShiftRequirement(j + 1, 0, n - 1 - j, n + 1 - j, {ChainQualifications[j + 1]}, 1, 1)

ChainFiller(n, k) ==
    ShiftRequirement(n + k, 0, IF k = n THEN 0 ELSE n + 1 - k, HoursPerDay,
                     {ChainQualifications[n + k]}, 0, 0)

ChainStaff(n, k) ==
    Staff(ChainStaffIds[k],
          {ChainQualifications[k], ChainQualifications[n + k]}
              \cup (IF k < n THEN {ChainQualifications[k + 1]} ELSE {}),
          HoursPerDay,
          Duration(ChainFiller(n, k))
              + (IF k < n THEN Duration(ChainCovered(n, k)) ELSE 0))

ChainRequest(n) ==
    SolveRequest([k \in 1..n |-> ChainStaff(n, k)],
                 [k \in 1..n |-> Availability(ChainStaffIds[k], 0, 0, HoursPerDay)],
                 [i \in 1..(n + n) |->
                     IF i <= n THEN ChainCovered(n, i - 1) ELSE ChainFiller(n, i - n)],
                 ScheduleConstraints(FALSE, {}, {}))

ChainRequests == {ChainRequest(n) : n \in 1..Len(ChainStaffIds)}

Requests ==
    WindowRequests \cup BookingRequests \cup StaffingRequests
    \cup CeilingRequests \cup TeamRequests \cup Scenarios

\* ---------------------------------------------------------- the behaviour
NoResponse == [status_code |-> 0, detail |-> "", solutions |-> <<>>, bestIndex |-> 0]

Init ==
    /\ request \in Requests
    /\ pc = "start"
    /\ x = {}
    /\ y = {}
    /\ overlapping = {}
    /\ status = "NOT_SOLVED"
    /\ solution = {}
    /\ results = <<>>
    /\ response = NoResponse
    /\ fragments = <<>>
    /\ merges = <<>>

\* solve_schedule, lines 44-250: variables, constraints and objective
BuildModel ==
    /\ pc = "start"
    /\ x' = XKeys(request)
    /\ y' = YKeys(request)
    /\ overlapping' = NoDoubleBooking(request, XKeys(request), YKeys(request))
    /\ pc' = "model"
    /\ UNCHANGED <<request, status, solution, results, response, fragments, merges>>

\* the outcomes solver.Solve(model) may have within the time budget
SolverOutcomes(req, xk, yk, ov) ==
    LET feas == FeasibleSet(req, xk, yk, ov)
    IN  {<<"UNKNOWN", {}>>}
        \cup (IF feas = {} THEN {<<"INFEASIBLE", {}>>} ELSE {})
        \cup {<<"FEASIBLE", a>> : a \in feas}
        \cup {<<"OPTIMAL", a>> : a \in OptimalAmong(req, xk, yk, feas)}

\* solve_schedule, lines 255-262: solve; no solution returns []
Solve ==
    /\ pc = "model"
    /\ \E o \in SolverOutcomes(request, x, y, overlapping) :
          /\ status' = o[1]
          /\ solution' = o[2]
          /\ pc' = IF o[1] \in {"OPTIMAL", "FEASIBLE"} THEN "solved" ELSE "returned"
    /\ results' = <<>>
    /\ UNCHANGED <<request, x, y, overlapping, response, fragments, merges>>

\* solve_schedule, line 267
BuildResult ==
    /\ pc = "solved"
    /\ results' = <<build_result(request, x, y, solution)>>
    /\ pc' = "built"
    /\ UNCHANGED <<request, x, y, overlapping, status, solution, response, fragments, merges>>

\* solve_schedule, lines 278-280: verify_max_hours raises or the result is returned
VerifyMaxHours ==
    /\ pc = "built"
    /\ pc' = IF MaxHoursViolated(results[1], request) THEN "raised" ELSE "returned"
    /\ UNCHANGED <<request, x, y, overlapping, status, solution, results, response, fragments, merges>>

\* main.solve: 400 for an empty list, else the solutions with bestIndex 0
Respond ==
    /\ pc = "returned"
    /\ response' = IF results = <<>>
                   THEN [status_code |-> 400, detail |-> "No feasible schedule found",
                         solutions |-> <<>>, bestIndex |-> 0]
                   ELSE [status_code |-> 200, detail |-> "",
                         solutions |-> results, bestIndex |-> 0]
    /\ pc' = "responded"
    /\ UNCHANGED <<request, x, y, overlapping, status, solution, results, fragments, merges>>

Next == BuildModel \/ Solve \/ BuildResult \/ VerifyMaxHours \/ Respond

Spec == Init /\ [][Next]_vars

\* the same program, started on the chain requests
InitChain ==
    /\ request \in ChainRequests
    /\ pc = "start"
    /\ x = {}
    /\ y = {}
    /\ overlapping = {}
    /\ status = "NOT_SOLVED"
    /\ solution = {}
    /\ results = <<>>
    /\ response = NoResponse
    /\ fragments = <<>>
    /\ merges = <<>>

SpecChain == InitChain /\ [][Next]_vars

\* ------------------------------------------------- merge_gaps on any list
\* gaps of two requirements on two weekdays, over every hour range
GapRecords ==
    {UncoveredGap(rid, day, w[1], w[2], "loc1") :
        rid \in {1, 2}, day \in {0, 1}, w \in Intervals}

OneRequirementGaps == {UncoveredGap(1, 0, w[1], w[2], "loc1") : w \in Intervals}

\* every list of at most three gaps, and every list of four gaps of one
\* requirement and weekday: adjacent, duplicated and overlapping fragments
GapLists ==
    {<<>>}
    \cup {<<g>> : g \in GapRecords}
    \cup {<<g, h>> : g \in GapRecords, h \in GapRecords}
    \cup {<<g, h, k>> : g \in GapRecords, h \in GapRecords, k \in GapRecords}
    \cup {<<g, h, k, l>> : g \in OneRequirementGaps, h \in OneRequirementGaps,
                           k \in OneRequirementGaps, l \in OneRequirementGaps}

NoRequest == SolveRequest(<<>>, <<>>, <<>>, ScheduleConstraints(FALSE, {}, {}))

\* merge_gaps is about to be called on a list of gaps
InitMerge ==
    /\ request = NoRequest
    /\ pc = "merge"
    /\ x = {}
    /\ y = {}
    /\ overlapping = {}
    /\ status = "NOT_SOLVED"
    /\ solution = {}
    /\ results = <<>>
    /\ response = NoResponse
    /\ fragments \in GapLists
    /\ merges = <<>>

\* merge_gaps(fragments)
Merge ==
    /\ pc = "merge"
    /\ merges' = <<merge_gaps(fragments)>>
    /\ pc' = "merged"
    /\ UNCHANGED <<request, x, y, overlapping, status, solution, results, response,
                   fragments>>

\* merge_gaps applied to what merge_gaps returned
Remerge ==
    /\ pc = "merged"
    /\ merges' = Append(merges, merge_gaps(merges[1]))
    /\ pc' = "remerged"
    /\ UNCHANGED <<request, x, y, overlapping, status, solution, results, response,
                   fragments>>

InitAny == Init \/ InitMerge

NextMerge == Next \/ Merge \/ Remerge

\* the service, and merge_gaps called on its own
SpecMerge == InitAny /\ [][NextMerge]_vars

\* ---------------------------------------------------------------- claims
\* the ScheduleResult solve_schedule has built or returned, when there is one
HasResult == results # <<>>
Result == results[1]
ResultShifts == Result.schedule.shifts
Returned == HasResult /\ pc \in {"returned", "responded"}

StaffById(sid) == CHOOSE s \in Range(request.staff) : s.id = sid
ShiftCovers(shift, h) == shift.startHour <= h /\ h < shift.endHour
ShiftsOfStaff(sid) == {i \in 1..Len(ResultShifts) : ResultShifts[i].staffId = sid}
ShiftsOfReq(rid) == {i \in 1..Len(ResultShifts) : ResultShifts[i].requirementId = rid}
ShiftHours(sid) ==
    SumSeq([i \in 1..Len(ResultShifts) |->
        IF ResultShifts[i].staffId = sid
        THEN ResultShifts[i].endHour - ResultShifts[i].startHour ELSE 0])
NoOvertimeWarning ==
    \A i \in 1..Len(Result.warnings) : Result.warnings[i].type # "overtime"

\* C1: with every personal ceiling >= 0, every result has hoursPerStaff[s] <=
\* s.maxHoursPerWeek for every staff member s, holds no overtime warning, and
\* verify_max_hours never raises.
C1_MaxHoursRespected ==
    (\A s \in Range(request.staff) : s.maxHoursPerWeek >= 0) =>
        /\ pc # "raised"
        /\ HasResult =>
              /\ \A s \in Range(request.staff) :
                    Result.stats.hoursPerStaff[s.id] <= s.maxHoursPerWeek
              /\ NoOvertimeWarning

\* a returned result in which a staff member with more assignable hours than
\* the personal ceiling works exactly the ceiling
C1_Witness ==
    /\ Returned
    /\ \E s \in Range(request.staff) :
          /\ s.maxHoursPerWeek > 0
          /\ Result.stats.hoursPerStaff[s.id] = s.maxHoursPerWeek
          /\ Cardinality({k \in x : k[1] = s.id}) > s.maxHoursPerWeek

\* C2 as stated: hoursPerStaff[s] <= constraints.maxHoursPerStaff for every set
\* value, 0 included.
C2_Original ==
    HasResult =>
        \A s \in Range(request.staff) :
            \A v \in request.constraints.maxHoursPerStaff :
                Result.stats.hoursPerStaff[s.id] <= v

\* C2 amended: hoursPerStaff[s] <= constraints.maxHoursPerStaff whenever that
\* value is set and positive.
C2_GlobalCeilingWhenPositive ==
    HasResult =>
        \A s \in Range(request.staff) :
            \A v \in request.constraints.maxHoursPerStaff :
                v > 0 => Result.stats.hoursPerStaff[s.id] <= v

\* a returned result in which the request-wide ceiling, lower than the personal
\* one, is what stops a staff member
C2_Witness ==
    /\ Returned
    /\ \E s \in Range(request.staff) :
          \E v \in request.constraints.maxHoursPerStaff :
              /\ v > 0
              /\ v < s.maxHoursPerWeek
              /\ Result.stats.hoursPerStaff[s.id] = v
              /\ Cardinality({k \in Keys(request, x, y) : k[1] = s.id}) >= 1
              /\ \E r \in Range(request.requirements) : Duration(r) > v

\* the requirements none of the staff is qualified for
Unstaffable ==
    {r \in Range(request.requirements) :
        /\ r.minStaff = 1
        /\ \A s \in Range(request.staff) :
              ~(r.requiredQualifications \subseteq s.qualifications)}

GapsOfReq(rid) ==
    {i \in 1..Len(Result.stats.uncoveredGaps) :
        Result.stats.uncoveredGaps[i].requirementId = rid}

\* C3 as stated: a requirement with minStaff = 1 and no qualified staff makes
\* solve_schedule return the empty list and /solve answer 400.
C3_Original ==
    Unstaffable # {} =>
        /\ pc \in {"returned", "responded"} => results = <<>>
        /\ pc = "responded" =>
              /\ response.status_code = 400
              /\ response.detail = "No feasible schedule found"

\* C3 amended: such a requirement does not make the model infeasible; when the
\* engine reports OPTIMAL or FEASIBLE, solve_schedule returns one result in which
\* the requirement has no shift and one uncovered gap over its whole range, and
\* /solve answers 200 with it; the empty list and the 400 answer come exactly
\* when the engine reports no solution.
C3_UnstaffableIsAGap ==
    Unstaffable # {} =>
        /\ (\A s \in Range(request.staff) : s.maxHoursPerWeek >= 0) =>
              status # "INFEASIBLE"
        /\ (pc \in {"returned", "responded"} /\ status \in {"OPTIMAL", "FEASIBLE"}) =>
              /\ Len(results) = 1
              /\ \A r \in Unstaffable :
                    /\ ShiftsOfReq(r.id) = {}
                    /\ Cardinality(GapsOfReq(r.id)) = 1
                    /\ \A i \in GapsOfReq(r.id) :
                          /\ Result.stats.uncoveredGaps[i].startHour = r.startHour
                          /\ Result.stats.uncoveredGaps[i].endHour = r.endHour
        /\ (pc \in {"returned", "responded"} /\ status \notin {"OPTIMAL", "FEASIBLE"}) =>
              results = <<>>
        /\ pc = "responded" =>
              IF results = <<>>
              THEN /\ response.status_code = 400
                   /\ response.detail = "No feasible schedule found"
              ELSE /\ response.status_code = 200
                   /\ response.solutions = results

\* /solve has answered 200 with an optimal result for a request that holds a
\* requirement nobody is qualified for, while somebody holds part of what it asks
C3_Witness ==
    /\ pc = "responded"
    /\ status = "OPTIMAL"
    /\ response.status_code = 200
    /\ \E r \in Unstaffable :
          \E s \in Range(request.staff) : r.requiredQualifications \cap s.qualifications # {}

\* C4: for every staff member, weekday and hour at most one emitted shift of
\* that staff member covers the hour, in both regimes.
C4_NoDoubleBooking ==
    HasResult =>
        \A sid \in StaffIds(request) : \A d \in 0..(DaysPerWeek - 1) :
            \A h \in 0..(HoursPerDay - 1) :
                Cardinality({i \in ShiftsOfStaff(sid) :
                                /\ ResultShifts[i].date = d
                                /\ ShiftCovers(ResultShifts[i], h)}) <= 1

\* a returned result in which one staff member has shifts of two requirements
\* on one day whose hour ranges share an hour the staff member could work in both
C4_Witness ==
    /\ Returned
    /\ \E i, j \in 1..Len(ResultShifts) :
          /\ ResultShifts[i].staffId = ResultShifts[j].staffId
          /\ ResultShifts[i].requirementId # ResultShifts[j].requirementId
          /\ ResultShifts[i].date = ResultShifts[j].date
          /\ \E k1, k2 \in x : /\ k1[1] = ResultShifts[i].staffId
                                /\ k2[1] = k1[1]
                                /\ k1[2] = ResultShifts[i].requirementId
                                /\ k2[2] = ResultShifts[j].requirementId
                                /\ k1[3] = k2[3]

\* C5: every emitted shift is for a staff member who holds every required
\* qualification and has, for every hour of the shift, a window on the
\* requirement's weekday containing the hour; the shift lies within the
\* requirement's range.
C5_ShiftsAreEligible ==
    HasResult =>
        \A i \in 1..Len(ResultShifts) :
            LET shift == ResultShifts[i]
                r     == ReqById(request, shift.requirementId)
                s     == StaffById(shift.staffId)
            IN  /\ r.requiredQualifications \subseteq s.qualifications
                /\ shift.startHour < shift.endHour
                /\ r.startHour <= shift.startHour /\ shift.endHour <= r.endHour
                /\ shift.date = r.dayOfWeek
                /\ \A h \in shift.startHour..(shift.endHour - 1) :
                      \E w \in Range(request.availability) :
                          /\ w.staffId = s.id
                          /\ w.dayOfWeek = r.dayOfWeek
                          /\ w.startHour <= h /\ h < w.endHour

\* a returned result with a shift for a requirement that asks for a
\* qualification, shorter than the requirement because the windows end early
C5_Witness ==
    /\ Returned
    /\ \E i \in 1..Len(ResultShifts) :
          LET shift == ResultShifts[i]
              r     == ReqById(request, shift.requirementId)
          IN  /\ r.requiredQualifications # {}
              /\ \E t \in Range(request.staff) :
                    ~(r.requiredQualifications \subseteq t.qualifications)
              /\ shift.endHour < r.endHour
              /\ ~is_available_at_hour(
                     AvailabilityByStaffDay(request, shift.staffId, r.dayOfWeek),
                     shift.endHour)

\* the number of emitted shifts of requirement rid that cover hour h
ActiveShifts(rid, h) ==
    Cardinality({i \in ShiftsOfReq(rid) : ShiftCovers(ResultShifts[i], h)})

\* the effective weekly ceiling of a staff member
Ceiling(s) ==
    LET m == request.constraints.maxHoursPerStaff
    IN  IF \E v \in m : v > 0
        THEN Min(s.maxHoursPerWeek, CHOOSE v \in m : v > 0)
        ELSE s.maxHoursPerWeek

\* staff qualified for r, with one window over the whole of r, a ceiling of at
\* least its duration, and no variable for any other requirement
Dedicated(r) ==
    {s \in Range(request.staff) :
        /\ r.requiredQualifications \subseteq s.qualifications
        /\ \E w \in Range(request.availability) :
              /\ w.staffId = s.id /\ w.dayOfWeek = r.dayOfWeek
              /\ w.startHour <= r.startHour /\ w.endHour >= r.endHour
        /\ Ceiling(s) >= Duration(r)
        /\ \A k \in Keys(request, x, y) : k[1] = s.id => k[2] = r.id}

EnoughStaff(r) ==
    /\ Cardinality(Dedicated(r)) >= r.minStaff
    /\ r.maxStaff = 0 \/ r.minStaff <= r.maxStaff

\* C6: for every requirement with maxStaff > 0 and every hour of it, at most
\* maxStaff emitted shifts of the requirement cover the hour; and in an optimal
\* result, when at least minStaff qualified, fully available staff with a
\* sufficient ceiling and no other requirement to serve exist, at least minStaff
\* shifts cover every hour.
C6_MaxStaffCap ==
    HasResult =>
        \A r \in Range(request.requirements) : \A h \in ReqHours(r) :
            /\ r.maxStaff > 0 => ActiveShifts(r.id, h) <= r.maxStaff
            /\ (status = "OPTIMAL" /\ EnoughStaff(r)) =>
                  ActiveShifts(r.id, h) >= r.minStaff

\* an optimal returned result for a requirement with more dedicated staff than
\* maxStaff, in which exactly maxStaff shifts cover some hour
C6_Witness ==
    /\ Returned
    /\ status = "OPTIMAL"
    /\ \E r \in Range(request.requirements) :
          /\ r.minStaff >= 1
          /\ r.maxStaff > 0
          /\ Cardinality(Dedicated(r)) > r.maxStaff
          /\ \E h \in ReqHours(r) : ActiveShifts(r.id, h) = r.maxStaff

TotalShiftHours ==
    SumSeq([i \in 1..Len(ResultShifts) |->
        ResultShifts[i].endHour - ResultShifts[i].startHour])

\* C7: for every staff member the durations of the emitted shifts sum to
\* hoursPerStaff[s], in both regimes; totalHours is the sum of all shift
\* durations; the optimal result of scenario S1 has 4 shift hours.
C7_ShiftHoursMatchStats ==
    HasResult =>
        /\ \A s \in Range(request.staff) :
              ShiftHours(s.id) = Result.stats.hoursPerStaff[s.id]
        /\ Result.stats.totalHours = TotalShiftHours
        /\ (request = ScenarioS1 /\ status = "OPTIMAL") => TotalShiftHours = 4

\* the optimal result of scenario S1 has been returned, with one segment in
\* each of the two requirements
C7_Witness ==
    /\ Returned
    /\ request = ScenarioS1
    /\ status = "OPTIMAL"
    /\ Len(ResultShifts) = 2
    /\ Result.stats.hoursPerStaff["s1"] = 4

ResultGaps == Result.stats.uncoveredGaps

GapKeyLeq(g, h) ==
    \/ g.requirementId < h.requirementId
    \/ /\ g.requirementId = h.requirementId
       /\ \/ g.dayOfWeek < h.dayOfWeek
          \/ g.dayOfWeek = h.dayOfWeek /\ g.startHour <= h.startHour

\* coverage of (r, h) below minStaff, counted from the emitted shifts
UnderStaffed(r, h) == ActiveShifts(r.id, h) < r.minStaff

\* the maximal contiguous under-staffed hour ranges of r
MaximalGapRuns(r) ==
    {w \in (r.startHour..r.endHour) \X (r.startHour..r.endHour) :
        /\ w[1] < w[2]
        /\ \A h \in w[1]..(w[2] - 1) : UnderStaffed(r, h)
        /\ w[1] = r.startHour \/ ~UnderStaffed(r, w[1] - 1)
        /\ w[2] = r.endHour \/ ~UnderStaffed(r, w[2])}

\* C8: uncoveredGaps is sorted by (requirementId, dayOfWeek, startHour), no
\* entry ends where another entry of the same requirement and weekday starts,
\* and the entries of a requirement are exactly its maximal contiguous
\* under-staffed hour ranges.
C8_GapsSortedAndMaximal ==
    HasResult =>
        /\ \A i, j \in 1..Len(ResultGaps) :
              i < j => GapKeyLeq(ResultGaps[i], ResultGaps[j])
        /\ \A i, j \in 1..Len(ResultGaps) :
              (/\ ResultGaps[i].requirementId = ResultGaps[j].requirementId
               /\ ResultGaps[i].dayOfWeek = ResultGaps[j].dayOfWeek)
                  => ResultGaps[i].endHour # ResultGaps[j].startHour
        /\ \A i \in 1..Len(ResultGaps) :
              \E r \in Range(request.requirements) :
                  /\ r.id = ResultGaps[i].requirementId
                  /\ r.dayOfWeek = ResultGaps[i].dayOfWeek
                  /\ r.locationId = ResultGaps[i].locationId
        /\ \A r \in Range(request.requirements) :
              /\ {<<ResultGaps[i].startHour, ResultGaps[i].endHour>> :
                      i \in GapsOfReq(r.id)} = MaximalGapRuns(r)
              /\ Cardinality(GapsOfReq(r.id)) = Cardinality(MaximalGapRuns(r))

\* a returned result with two gaps of one requirement and a gap of another,
\* for a request that lists the requirement with the greater id first
C8_Witness ==
    /\ Returned
    /\ Len(request.requirements) = 2
    /\ request.requirements[1].id > request.requirements[2].id
    /\ \E i, j, k \in 1..Len(ResultGaps) :
          /\ i # j
          /\ ResultGaps[i].requirementId = ResultGaps[j].requirementId
          /\ ResultGaps[k].requirementId # ResultGaps[i].requirementId

\* the multiset of the values of hoursPerStaff: value -> number of staff
HoursBag(hps) ==
    [v \in {hps[sid] : sid \in DOMAIN hps} |->
        Cardinality({sid \in DOMAIN hps : hps[sid] = v})]

\* the results of the other solves of the same request that reach optimality
OtherOptimalResults ==
    {build_result(request, x, y, a) : a \in OptimalSet(request, x, y, overlapping)}

\* the hours the decision variables of the request can add up to
PotentialHours ==
    IF request.constraints.allowSplitShifts
    THEN Cardinality(x)
    ELSE SumSeq([i \in 1..Len(request.requirements) |->
            Duration(request.requirements[i]) *
            Cardinality({k \in y : k[2] = request.requirements[i].id})])

FloorSum ==
    SumSeq([i \in 1..Len(request.staff) |->
        Max(request.staff[i].minHoursPerWeek,
            IF request.constraints.minHoursPerStaff = {} THEN 0
            ELSE CHOOSE v \in request.constraints.minHoursPerStaff : TRUE)])

\* no amount of assignable hours and undertime weighs as much as one gap unit
SmallRequest ==
    HourReward * PotentialHours + UndertimePenalty * FloorSum < GapPenalty

\* C9 as stated: two optimal solutions of one request have the same
\* coveredHours, the same coveragePercentage and the same multiset of
\* hoursPerStaff values.
C9_Original ==
    (pc = "responded" /\ HasResult /\ status = "OPTIMAL") =>
        \A other \in OtherOptimalResults :
            /\ other.stats.coveredHours = Result.stats.coveredHours
            /\ other.stats.coveragePercentage = Result.stats.coveragePercentage
            /\ HoursBag(other.stats.hoursPerStaff) = HoursBag(Result.stats.hoursPerStaff)

\* C9 amended: two optimal solutions of one request have the same coveredHours
\* and the same coveragePercentage, for a request whose assignable hours and
\* floors weigh less than one gap unit; the hoursPerStaff values may differ.
C9_OptimaAgreeOnCoverage ==
    (pc = "responded" /\ HasResult /\ status = "OPTIMAL" /\ SmallRequest) =>
        \A other \in OtherOptimalResults :
            /\ other.stats.coveredHours = Result.stats.coveredHours
            /\ other.stats.coveragePercentage = Result.stats.coveragePercentage

\* an optimal result has been returned for a request that has another optimal
\* solution with other shifts and another multiset of hoursPerStaff values
C9_Witness ==
    /\ pc = "responded" /\ HasResult /\ status = "OPTIMAL" /\ SmallRequest
    /\ Result.stats.requiredHours > Result.stats.coveredHours
    /\ \E other \in OtherOptimalResults :
          /\ other.schedule.shifts # ResultShifts
          /\ HoursBag(other.stats.hoursPerStaff) # HoursBag(Result.stats.hoursPerStaff)

\* one window of the staff member on r's weekday spans the whole of r
SingleWindowCovers(sid, r) ==
    \E w \in Range(request.availability) :
        /\ w.staffId = sid /\ w.dayOfWeek = r.dayOfWeek
        /\ w.startHour <= r.startHour /\ w.endHour >= r.endHour

\* every hour of r lies in some window of the staff member on r's weekday
WindowsTogetherCover(sid, r) ==
    \A h \in ReqHours(r) :
        \E w \in Range(request.availability) :
            /\ w.staffId = sid /\ w.dayOfWeek = r.dayOfWeek
            /\ w.startHour <= h /\ h < w.endHour

\* C10: in the whole-shift regime a variable, and so a shift, exists for
\* (s, r) only if one single window of s on r's weekday spans the whole of r;
\* windows do not combine. In scenario S3 the result has no shift and exactly
\* one uncovered gap [8,13).
C10_WholeShiftNeedsOneWindow ==
    ~request.constraints.allowSplitShifts =>
        /\ \A k \in y : SingleWindowCovers(k[1], ReqById(request, k[2]))
        /\ HasResult =>
              /\ \A i \in 1..Len(ResultShifts) :
                    LET r == ReqById(request, ResultShifts[i].requirementId)
                    IN  /\ SingleWindowCovers(ResultShifts[i].staffId, r)
                        /\ ResultShifts[i].startHour = r.startHour
                        /\ ResultShifts[i].endHour = r.endHour
              /\ request = ScenarioS3 =>
                    /\ ResultShifts = <<>>
                    /\ ResultGaps = <<UncoveredGap(1, 0, 8, 13, "loc1")>>

\* a whole-shift result has been returned for a staff member whose windows
\* together cover the requirement while none does alone: no shift, one gap
\* over the whole requirement
C10_Witness ==
    /\ Returned
    /\ ~request.constraints.allowSplitShifts
    /\ \E r \in Range(request.requirements) : \E s \in Range(request.staff) :
          /\ WindowsTogetherCover(s.id, r)
          /\ ~SingleWindowCovers(s.id, r)
          /\ s.maxHoursPerWeek >= Duration(r)
          /\ ResultShifts = <<>>
          /\ ResultGaps = <<UncoveredGap(r.id, r.dayOfWeek, r.startHour, r.endHour,
                                         r.locationId)>>

\* the hours h with x[s, r, h] = 1 in the solution
AssignedHours(sid, rid) ==
    {k[3] : k \in {c \in solution : c[1] = sid /\ c[2] = rid}}

\* the positions of the shifts emitted for the pair (s, r)
ShiftsOfPair(sid, rid) ==
    {i \in 1..Len(ResultShifts) :
        ResultShifts[i].staffId = sid /\ ResultShifts[i].requirementId = rid}

\* some unassigned hour lies between two assigned hours
NonContiguous(hours) ==
    \E a \in hours : \E c \in hours :
        \E b \in (a + 1)..(c - 1) : b \notin hours

\* C11: in the split regime the shifts emitted for a pair (s, r) are exactly
\* the maximal runs of consecutive hours h with x[s, r, h] = 1: their hour
\* ranges are non-empty, together they cover exactly the assigned hours, they
\* are pairwise disjoint, none ends at the hour where another one starts, and
\* a non-contiguous assignment yields more than one shift for the pair.
C11_ShiftsAreMaximalRuns ==
    (HasResult /\ request.constraints.allowSplitShifts) =>
        \A s \in Range(request.staff) : \A r \in Range(request.requirements) :
            LET mine == ShiftsOfPair(s.id, r.id)
                assigned == AssignedHours(s.id, r.id)
            IN  /\ \A i \in mine : ResultShifts[i].startHour < ResultShifts[i].endHour
                /\ {h \in 0..HoursPerDay :
                        \E i \in mine : ShiftCovers(ResultShifts[i], h)} = assigned
                /\ \A i \in mine : \A j \in mine \ {i} :
                      /\ ~\E h \in 0..HoursPerDay :
                             /\ ShiftCovers(ResultShifts[i], h)
                             /\ ShiftCovers(ResultShifts[j], h)
                      /\ ResultShifts[i].endHour # ResultShifts[j].startHour
                /\ NonContiguous(assigned) => Cardinality(mine) > 1

\* a split-regime result has been returned in which one pair (s, r) is
\* assigned hours on both sides of an unassigned hour and has two shifts
C11_Witness ==
    /\ Returned
    /\ request.constraints.allowSplitShifts
    /\ \E s \in Range(request.staff) : \E r \in Range(request.requirements) :
          /\ NonContiguous(AssignedHours(s.id, r.id))
          /\ Cardinality(ShiftsOfPair(s.id, r.id)) = 2

\* C12: every assignment that maximises 10*sum(hours) - 1000*sum(gap) -
\* 5*sum(under) under the model's constraints also minimises the total
\* coverage shortfall, the sum over (r, h) of max(0, minStaff - cov[r,h]), among
\* all feasible assignments; and in an optimal assignment gap[r,h] > 0 exactly
\* when cov[r,h] < r.minStaff.
C12_Original ==
    (status = "OPTIMAL" /\ pc = "solved") =>
        /\ \A b \in FeasibleSet(request, x, y, overlapping) :
              TotalGap(request, x, y, solution) <= TotalGap(request, x, y, b)
        /\ \A r \in Range(request.requirements) : \A h \in ReqHours(r) :
              \A g \in OptimalGapValues(request, x, y, solution, r, h) :
                  g > 0 <=> Coverage(request, x, y, solution, r, h) < r.minStaff

\* the lists s and t hold the same gaps the same number of times
SameGaps(s, t) ==
    /\ Len(s) = Len(t)
    /\ \A g \in Range(s) \cup Range(t) :
          Cardinality({i \in 1..Len(s) : s[i] = g})
              = Cardinality({i \in 1..Len(t) : t[i] = g})

\* gap h starts where gap g of the same requirement and weekday ends
Adjacent(g, h) ==
    /\ g.requirementId = h.requirementId
    /\ g.dayOfWeek = h.dayOfWeek
    /\ g.endHour = h.startHour

\* gaps g and h of one requirement and weekday differ and share an hour
Overlap(g, h) ==
    /\ g.requirementId = h.requirementId
    /\ g.dayOfWeek = h.dayOfWeek
    /\ g # h
    /\ g.startHour < h.endHour /\ h.startHour < g.endHour

\* C13: merge_gaps(merge_gaps(g)) = merge_gaps(g) for every list g of gaps,
\* lists with adjacent, duplicated or overlapping fragments included; and the
\* hour sweep of build_result never yields two gaps of one requirement of which
\* one ends where the other starts, so that merge_gaps returns the gaps of the
\* sweep, at most in another order.
C13_MergeIdempotent ==
    /\ Len(merges) = 2 => merges[2] = merges[1]
    /\ HasResult =>
          LET sweep == SweepGaps(request, x, y, solution)
          IN  /\ \A i \in 1..Len(sweep) : \A j \in 1..Len(sweep) :
                    ~Adjacent(sweep[i], sweep[j])
              /\ SameGaps(merge_gaps(sweep), sweep)
              /\ SameGaps(Result.stats.uncoveredGaps, sweep)

\* merge_gaps has been applied twice to a list that holds two adjacent
\* fragments, a fragment twice and two overlapping fragments; the first call
\* merged something, the second returned its argument
C13_Witness ==
    /\ pc = "remerged"
    /\ Len(merges[1]) < Len(fragments)
    /\ merges[2] = merges[1]
    /\ \E i \in 1..Len(fragments) : \E j \in 1..Len(fragments) :
          Adjacent(fragments[i], fragments[j])
    /\ \E i \in 1..Len(fragments) : \E j \in 1..Len(fragments) :
          i # j /\ fragments[i] = fragments[j]
    /\ \E i \in 1..Len(fragments) : \E j \in 1..Len(fragments) :
          Overlap(fragments[i], fragments[j])

\* the request with allowSplitShifts set, and the model built for it
SplitTwin == [request EXCEPT !.constraints.allowSplitShifts = TRUE]
TwinX == XKeys(SplitTwin)
TwinOverlapping == NoDoubleBooking(SplitTwin, TwinX, {})
TwinFeasibleSet == FeasibleSet(SplitTwin, TwinX, {}, TwinOverlapping)

\* the split assignment x[s, r, h] = y[s, r] for every hour h of r
Lift(a) ==
    UNION {{<<k[1], k[2], h>> : h \in ReqHours(ReqById(request, k[2]))} : k \in a}

\* C14: for a whole-shift request, every feasible assignment y corresponds to
\* a feasible assignment of the same request in the split regime, x[s, r, h] =
\* y[s, r] for every hour h of r, with the same coverage at every hour and the
\* same hours for every staff member; the optimal objective value and the
\* optimal coveredHours of the split regime are at least those of the
\* whole-shift regime.
C14_SplitRefinesWholeShift ==
    (pc = "model" /\ ~request.constraints.allowSplitShifts) =>
        LET whole == FeasibleSet(request, x, y, overlapping)
        IN  /\ \A a \in whole :
                  /\ Lift(a) \subseteq TwinX
                  /\ Feasible(SplitTwin, TwinX, {}, TwinOverlapping, Lift(a))
                  /\ \A r \in Range(request.requirements) : \A h \in ReqHours(r) :
                        Coverage(SplitTwin, TwinX, {}, Lift(a), r, h)
                            = Coverage(request, x, y, a, r, h)
                  /\ \A s \in Range(request.staff) :
                        StaffHours(SplitTwin, Lift(a), s.id)
                            = StaffHours(request, a, s.id)
            /\ \A a \in OptimalAmong(request, x, y, whole) :
                  \A b \in OptimalAmong(SplitTwin, TwinX, {}, TwinFeasibleSet) :
                      /\ Objective(SplitTwin, TwinX, {}, b) >= Objective(request, x, y, a)
                      /\ CoveredHours(SplitTwin, TwinX, {}, b)
                            >= CoveredHours(request, x, y, a)

\* the model of a whole-shift request has been built, it has a feasible
\* assignment with a shift in it, and the split regime reaches a strictly
\* higher objective and strictly more covered hours
C14_Witness ==
    /\ pc = "model"
    /\ ~request.constraints.allowSplitShifts
    /\ \E a \in OptimalSet(request, x, y, overlapping) :
          /\ a # {}
          /\ Feasible(SplitTwin, TwinX, {}, TwinOverlapping, Lift(a))
          /\ \E b \in OptimalAmong(SplitTwin, TwinX, {}, TwinFeasibleSet) :
                /\ Objective(SplitTwin, TwinX, {}, b) > Objective(request, x, y, a)
                /\ CoveredHours(SplitTwin, TwinX, {}, b)
                      > CoveredHours(request, x, y, a)

====
